---- MODULE Spec2Model ----
(***************************************************************************)
(* A model of ah_files' unified-diff patcher (src/src/ah_files/udiff.py)   *)
(* and of the apply_udiff command that drives it (src/src/ah_files/mod.py).*)
(*                                                                         *)
(* Text is a sequence of one-character strings, so that str.find, slicing, *)
(* str.split, str.replace and str.splitlines are computed character by     *)
(* character as Python computes them.                                      *)
(***************************************************************************)
EXTENDS Integers, Sequences, FiniteSets, TLC

LF == "\n"
CR == "\r"
SP == " "

(***************************************************************************)
(* Python string primitives used by the source.                            *)
(***************************************************************************)

\* s[i:] for a 0-based i >= 0
Drop(s, i) == SubSeq(s, i + 1, Len(s))

\* s[:i] for a 0-based i >= 0
Take(s, i) == SubSeq(s, 1, i)

\* s.startswith(p)
StartsWith(s, p) == Len(s) >= Len(p) /\ SubSeq(s, 1, Len(p)) = p

\* the 0-based positions at which sub occurs in s
Occurrences(s, sub) ==
    {i \in 0..(Len(s) - Len(sub)) : SubSeq(s, i + 1, i + Len(sub)) = sub}

Min(S) == CHOOSE x \in S : \A y \in S : x <= y

Max(S) == CHOOSE x \in S : \A y \in S : x >= y

\* s.find(sub): the lowest index of sub in s, -1 when absent; "".find("") = 0
Find(s, sub) ==
    LET at == Occurrences(s, sub)
    IN  IF at = {} THEN -1 ELSE Min(at)

RECURSIVE Concat(_)
\* "".join(parts)
Concat(parts) ==
    IF parts = <<>> THEN <<>> ELSE Head(parts) \o Concat(Tail(parts))

RECURSIVE ReplaceCRLF(_)
\* text.replace('\r\n', '\n')
ReplaceCRLF(text) ==
    IF text = <<>> THEN <<>>
    ELSE IF Len(text) >= 2 /\ text[1] = CR /\ text[2] = LF
         THEN <<LF>> \o ReplaceCRLF(Drop(text, 2))
         ELSE <<text[1]>> \o ReplaceCRLF(Tail(text))

RECURSIVE ReplaceCR(_)
\* text.replace('\r', '\n')
ReplaceCR(text) ==
    IF text = <<>> THEN <<>>
    ELSE <<IF text[1] = CR THEN LF ELSE text[1]>> \o ReplaceCR(Tail(text))

\* normalize_line_endings without its second replace: a bare \r stays
normalize_line_endings_crlf_only(text) == ReplaceCRLF(text)

normalize_line_endings(text) == ReplaceCR(ReplaceCRLF(text))

\* the length of the first line of a non-empty text, its line ending included
\* (str.splitlines ends a line at \n, \r or \r\n)
FirstLineLen(text) ==
    LET ends == {i \in 1..Len(text) : text[i] \in {LF, CR}}
    IN  IF ends = {} THEN Len(text)
        ELSE LET e == Min(ends)
             IN  IF text[e] = CR /\ e < Len(text) /\ text[e + 1] = LF
                 THEN e + 1 ELSE e

RECURSIVE splitlines(_)
\* text.splitlines(True)
splitlines(text) ==
    IF text = <<>> THEN <<>>
    ELSE <<Take(text, FirstLineLen(text))>>
             \o splitlines(Drop(text, FirstLineLen(text)))

IsSpace(ch) == ch \in {SP, LF, CR, "\t"}

RECURSIVE split(_)
\* s.split(): the maximal runs of non-whitespace characters
split(s) ==
    IF s = <<>> THEN <<>>
    ELSE IF IsSpace(s[1]) THEN split(Tail(s))
    ELSE LET stops == {i \in 1..Len(s) : IsSpace(s[i])}
             n == IF stops = {} THEN Len(s) ELSE Min(stops) - 1
         IN  <<Take(s, n)>> \o split(Drop(s, n))

RECURSIVE split_on(_, _)
\* s.split(sep) for a one-character sep: always at least one field
split_on(s, sep) ==
    LET at == {i \in 1..Len(s) : s[i] = sep}
    IN  IF at = {} THEN <<s>>
        ELSE <<Take(s, Min(at) - 1)>> \o split_on(Drop(s, Min(at)), sep)

Digits == {"0", "1", "2", "3", "4", "5", "6", "7", "8", "9"}

\* whether int(s) returns (TRUE) or raises ValueError (FALSE), for a field
\* without whitespace or underscores: an optional sign and at least one digit
IsInt(s) ==
    LET d == IF s # <<>> /\ s[1] \in {"+", "-"} THEN Tail(s) ELSE s
    IN  d # <<>> /\ \A i \in 1..Len(d) : d[i] \in Digits

RECURSIVE int(_)
\* int(s) for an s that IsInt accepts
int(s) ==
    IF s = <<>> THEN 0
    ELSE IF s[1] = "-" THEN 0 - int(Tail(s))
    ELSE IF s[1] = "+" THEN int(Tail(s))
    ELSE LET digit == CHOOSE n \in 0..9 :
                          s[Len(s)] = <<"0", "1", "2", "3", "4", "5", "6", "7", "8", "9">>[n + 1]
         IN  10 * int(Take(s, Len(s) - 1)) + digit

(***************************************************************************)
(* udiff.py: parse_hunk_header and apply_hunk.                             *)
(* A hunk is a sequence of lines (each a text); None is Python's None.     *)
(***************************************************************************)

None == <<"None">>

\* the range "start[,length]" of a header field whose first character (the
\* sign) is dropped; None when int() raises inside the try block
parse_range(field) ==
    LET range == split_on(Drop(field, 1), ",")
    IN  IF ~IsInt(range[1]) THEN None
        ELSE IF Len(range) > 1 /\ ~IsInt(range[2]) THEN None
        ELSE <<int(range[1]), IF Len(range) > 1 THEN int(range[2]) ELSE 1>>

\* (old_start, old_length, new_start, new_length), or None.  The header
\* passed by apply_hunk starts with "@@", so parts is never empty.
parse_hunk_header(header) ==
    LET parts == split(header)
        old_range == parse_range(parts[2])
        new_range == parse_range(parts[3])
    IN  IF ~StartsWith(parts[1], <<"@", "@">>) THEN None
        ELSE IF Len(parts) < 3 THEN None
        ELSE IF old_range = None \/ new_range = None THEN None
        ELSE old_range \o new_range

\* the index of the first line of the hunk that starts with "@@", 0 if none
header_line(hunk) ==
    LET at == {i \in 1..Len(hunk) : StartsWith(hunk[i], <<"@", "@">>)}
    IN  IF at = {} THEN 0 ELSE Min(at)

RECURSIVE marked_lines(_, _)
\* [normalize_line_endings(line[1:]) for line in body
\*      if line starts with one of the markers]
marked_lines(body, markers) ==
    IF body = <<>> THEN <<>>
    ELSE LET line == Head(body)
         IN  (IF line # <<>> /\ line[1] \in markers
              THEN <<normalize_line_endings(Drop(line, 1))>>
              ELSE <<>>) \o marked_lines(Tail(body), markers)

\* the text of the context and delete lines after the header
before_text(hunk) ==
    Concat(marked_lines(Drop(hunk, header_line(hunk)), {SP, "-"}))

\* after_text with the context lines forgotten
after_text_inserts_only(hunk) ==
    Concat(marked_lines(Drop(hunk, header_line(hunk)), {"+"}))

\* the text of the context and insert lines after the header
after_text(hunk) ==
    Concat(marked_lines(Drop(hunk, header_line(hunk)), {SP, "+"}))

\* content_text[:chunk_pos] + after_text + content_text[chunk_pos + len(before_text):]
replace_chunk(content_text, chunk_pos, before, after) ==
    Take(content_text, chunk_pos) \o after
        \o Drop(content_text, chunk_pos + Len(before))

\* apply_hunk with position 0 taken for "not found"
apply_hunk_found_at_zero_lost(content, hunk) ==
    IF hunk = <<>> THEN content
    ELSE LET normalized == normalize_line_endings(content)
             before == before_text(hunk)
             chunk_pos == Find(normalized, before)
         IN  IF header_line(hunk) = 0 THEN normalized
             ELSE IF parse_hunk_header(hunk[header_line(hunk)]) = None
                  THEN normalized
             ELSE IF chunk_pos <= 0 THEN normalized
             ELSE replace_chunk(normalized, chunk_pos, before, after_text(hunk))

apply_hunk(content, hunk) ==
    IF hunk = <<>> THEN content
    ELSE LET normalized == normalize_line_endings(content)
             lines == splitlines(normalized)
             content_text == Concat(lines)
             before == before_text(hunk)
             chunk_pos == Find(content_text, before)
         IN  IF header_line(hunk) = 0 THEN normalized
             ELSE IF parse_hunk_header(hunk[header_line(hunk)]) = None
                  THEN normalized
             ELSE IF chunk_pos = -1 THEN normalized
             ELSE replace_chunk(content_text, chunk_pos, before, after_text(hunk))

(***************************************************************************)
(* Paths: os.path and pathlib on POSIX, for paths without "." and ".."     *)
(* components, doubled or trailing slashes (the paths drawn have none).    *)
(***************************************************************************)

SLASH == "/"

\* os.path.isabs(path)
isabs(path) == StartsWith(path, <<SLASH>>)

\* path.rfind('/') + 1
after_last_slash(path) ==
    LET at == {i \in 1..Len(path) : path[i] = SLASH}
    IN  IF at = {} THEN 0 ELSE Max(at)

\* os.path.basename(path)
basename(path) == Drop(path, after_last_slash(path))

RECURSIVE rstrip_slash(_)
\* head.rstrip('/')
rstrip_slash(head) ==
    IF head # <<>> /\ head[Len(head)] = SLASH
    THEN rstrip_slash(Take(head, Len(head) - 1)) ELSE head

\* os.path.dirname(path)
dirname(path) ==
    LET head == Take(path, after_last_slash(path))
    IN  IF head # <<>> /\ \E i \in 1..Len(head) : head[i] # SLASH
        THEN rstrip_slash(head) ELSE head

\* str(Path(root) / path): an absolute path replaces the root
join_path(root, path) ==
    IF isabs(path) THEN path
    ELSE IF root = <<>> THEN path
    ELSE IF root[Len(root)] = SLASH THEN root \o path
    ELSE root \o <<SLASH>> \o path

(***************************************************************************)
(* udiff.py: MockIO and FileIO.  A store maps the paths of the files that  *)
(* exist to their texts; every directory a path names is taken to exist.   *)
(***************************************************************************)

MockIO == "MockIO"
FileIO == "FileIO"

\* MockIO.abs_path and FileIO.abs_path
abs_path(root, path) == join_path(root, path)

\* what open(path).read() returns for the stored text: text mode translates
\* \r\n and \r to \n (universal newlines)
universal_newlines(text) == ReplaceCR(ReplaceCRLF(text))

\* whether read_text raises: FileIO opens the file, which must exist;
\* MockIO uses dict.get
read_raises(io, root, files, path) ==
    io = FileIO /\ abs_path(root, path) \notin DOMAIN files

\* MockIO.read_text and FileIO.read_text, where they do not raise
read_text(io, root, files, path) ==
    LET p == abs_path(root, path)
    IN  IF io = MockIO
        THEN (IF p \in DOMAIN files THEN files[p] ELSE <<>>)
        ELSE universal_newlines(files[p])

\* MockIO.write_text and FileIO.write_text (the file is created or truncated)
write_text(io, root, files, path, text) ==
    LET p == abs_path(root, path)
    IN  [q \in DOMAIN files \cup {p} |-> IF q = p THEN text ELSE files[q]]

(***************************************************************************)
(* udiff.py: UnifiedDiffCoder.get_edits.  An edit is <<path, hunk>>.       *)
(***************************************************************************)

RECURSIVE lstrip(_)
lstrip(s) == IF s # <<>> /\ IsSpace(s[1]) THEN lstrip(Tail(s)) ELSE s

RECURSIVE rstrip(_)
rstrip(s) ==
    IF s # <<>> /\ IsSpace(s[Len(s)]) THEN rstrip(Take(s, Len(s) - 1)) ELSE s

\* s.strip()
strip(s) == rstrip(lstrip(s))

\* one iteration of the loop over the lines: st is the record of the
\* locals edits, current_path and current_hunk
get_edits_line(st, line) ==
    IF StartsWith(line, <<"-", "-", "-", SP>>)
    THEN [edits |-> IF st.current_hunk # <<>>
                    THEN Append(st.edits, <<st.current_path, st.current_hunk>>)
                    ELSE st.edits,
          current_path |-> strip(Drop(line, 4)),
          current_hunk |-> <<>>]
    ELSE IF StartsWith(line, <<"+", "+", "+", SP>>)
    THEN [st EXCEPT !.current_path = strip(Drop(line, 4))]
    ELSE IF StartsWith(line, <<"@", "@">>)
    THEN [edits |-> IF st.current_hunk # <<>>
                    THEN Append(st.edits, <<st.current_path, st.current_hunk>>)
                    ELSE st.edits,
          current_path |-> st.current_path,
          current_hunk |-> <<line>>]
    ELSE IF line[1] \in {"-", "+", SP} /\ st.current_hunk # <<>>
    THEN [st EXCEPT !.current_hunk = Append(st.current_hunk, line)]
    ELSE st

RECURSIVE get_edits_loop(_, _)
get_edits_loop(st, lines) ==
    IF lines = <<>> THEN st
    ELSE get_edits_loop(get_edits_line(st, Head(lines)), Tail(lines))

get_edits(diff_content) ==
    LET st == get_edits_loop([edits |-> <<>>, current_path |-> None,
                              current_hunk |-> <<>>],
                             splitlines(normalize_line_endings(diff_content)))
    IN  IF st.current_hunk # <<>>
        THEN Append(st.edits, <<st.current_path, st.current_hunk>>)
        ELSE st.edits

(***************************************************************************)
(* udiff.py: UnifiedDiffCoder.apply_edits.  The loop is folded over the    *)
(* edits; its state is the store, cnt, whether an exception has ended the  *)
(* call, and a log with one entry per edit reached.                        *)
(***************************************************************************)

DevNull == <<SLASH, "d", "e", "v", SLASH, "n", "u", "l", "l">>

\* the path handed to io.abs_path: a relative path is cut to its basename
edit_path(path) == IF ~isabs(path) THEN basename(path) ELSE path

\* count_edit counting every hunk handed to apply_hunk
count_edit_every_hunk(cnt, changed) == cnt + 1

\* cnt after a hunk was applied: one more when the content changed
count_edit(cnt, changed) == IF changed THEN cnt + 1 ELSE cnt

\* the rest of an iteration once the hunk has been applied to the content
\* read: the new content is written and counted if it differs
write_if_changed(io, root, st, full_path, content, new_content) ==
    [files |-> IF new_content # content
               THEN write_text(io, root, st.files, full_path, new_content)
               ELSE st.files,
     cnt |-> count_edit(st.cnt, new_content # content),
     raised |-> FALSE,
     log |-> Append(st.log, [status |-> "done",
                             file |-> abs_path(root, full_path),
                             existed |-> abs_path(root, full_path) \in DOMAIN st.files,
                             content |-> content,
                             new_content |-> new_content,
                             wrote |-> new_content # content])]

\* the log entry of an iteration that read or wrote nothing
no_outcome(status, file) ==
    [status |-> status, file |-> file, existed |-> FALSE, content |-> <<>>,
     new_content |-> <<>>, wrote |-> FALSE]

\* one iteration of the loop over the edits (each value is computed once:
\* the singleton sets bind what the code holds in a local)
apply_edit(io, root, st, edit) ==
    LET path == edit[1]
        full_path == abs_path(root, edit_path(path))
    IN  IF st.raised THEN st
        ELSE IF path = None \/ path = <<>> \/ path = DevNull
        THEN [st EXCEPT !.log = Append(@, no_outcome("skipped", <<>>))]
        ELSE IF read_raises(io, root, st.files, full_path)
        THEN [st EXCEPT !.raised = TRUE,
                        !.log = Append(@, no_outcome("raised",
                                                     abs_path(root, full_path)))]
        ELSE CHOOSE next \in
                 UNION {{write_if_changed(io, root, st, full_path, content, new_content) :
                            new_content \in {apply_hunk(content, edit[2])}} :
                        content \in {read_text(io, root, st.files, full_path)}} : TRUE

RECURSIVE apply_edits_loop(_, _, _, _)
apply_edits_loop(io, root, st, edits) ==
    IF edits = <<>> THEN st
    ELSE CHOOSE last \in {apply_edits_loop(io, root, next, Tail(edits)) :
                             next \in {apply_edit(io, root, st, Head(edits))}} : TRUE

\* the store, the count (returned unless raised) and the log of the call
apply_edits(io, root, files, edits) ==
    apply_edits_loop(io, root,
                     [files |-> files, cnt |-> 0, raised |-> FALSE, log |-> <<>>],
                     edits)

(***************************************************************************)
(* Inputs: hunk headers, hunk body lines, file contents.                   *)
(***************************************************************************)

\* "@@ -1,2 +1,2 @@\n"
HeaderNumeric ==
    <<"@", "@", SP, "-", "1", ",", "2", SP, "+", "1", ",", "2", SP, "@", "@", LF>>

\* "@@ -9 +9 @@\n": ranges that point outside every content of the model
HeaderWrong == <<"@", "@", SP, "-", "9", SP, "+", "9", SP, "@", "@", LF>>

\* "@@ ... @@\n": the header the apply_udiff docstring tells callers to write
HeaderDots == <<"@", "@", SP, ".", ".", ".", SP, "@", "@", LF>>

\* "@@\n"
HeaderBare == <<"@", "@", LF>>

NumericHeaders == {HeaderNumeric, HeaderWrong}

Headers == NumericHeaders \cup {HeaderDots, HeaderBare}

Markers == {SP, "-", "+"}

LineTexts == {<<"a", LF>>, <<"b", LF>>}

BodyLines == {<<m>> \o t : m \in Markers, t \in LineTexts}

MaxHunkLines == 2

Bodies == UNION {[1..n -> BodyLines] : n \in 0..MaxHunkLines}

Hunks == {<<h>> \o b : h \in Headers, b \in Bodies}

\* contents are built from whole lines (LF and CRLF terminated) and from an
\* unterminated piece, so that a line may also match in the middle of another
ContentPieces == {<<"a", LF>>, <<"b", LF>>, <<"a", CR, LF>>, <<"b">>}

MaxContentLines == 2

Contents ==
    {Concat(ps) : ps \in UNION {[1..n -> ContentPieces] : n \in 0..MaxContentLines}}

\* the bodies of the hunks of a patch: replace a by b; insert a after the b
\* that the first one writes; insert a with no context (a new file)
BodyReplace == << <<"-", "a", LF>>, <<"+", "b", LF>> >>

BodyAfter == << <<SP, "b", LF>>, <<"+", "a", LF>> >>

BodyInsert == << <<"+", "a", LF>> >>

EditHunks ==
    {<<h>> \o b : h \in {HeaderNumeric, HeaderDots}, b \in {BodyReplace, BodyAfter}}
        \cup {<<HeaderNumeric>> \o BodyInsert}

\* "d/f" and "e/f": two relative paths; "/r/g": an absolute path
PathDF == <<"d", SLASH, "f">>

PathEF == <<"e", SLASH, "f">>

PathG == <<SLASH, "r", SLASH, "g">>

EditPaths == {PathDF, PathG, DevNull}

MaxEdits == 2

EditLists == UNION {[1..n -> EditPaths \X EditHunks] : n \in 0..MaxEdits}

\* the root of the FileIO or MockIO of a coder, and the files under it
RootDir == <<SLASH, "r">>

FileF == <<SLASH, "r", SLASH, "f">>

StoredContents == {<<"a", LF>>, <<"b", CR, LF>>}

\* "/r/f" is absent or holds one of the contents; "/r/g" is absent or holds
\* the first
Stores ==
    {<<>>, [p \in {PathG} |-> <<"a", LF>>]}
        \cup UNION {{[p \in {FileF} |-> c],
                     [p \in {FileF, PathG} |-> IF p = FileF THEN c ELSE <<"a", LF>>]} :
                    c \in StoredContents}

\* diff texts: the "--- " and "+++ " lines of a file and its hunks
FileDiff(src, dst, hunks) ==
    <<"-", "-", "-", SP>> \o src \o <<LF>>
        \o <<"+", "+", "+", SP>> \o dst \o <<LF>>
        \o Concat([i \in 1..Len(hunks) |-> Concat(hunks[i])])

RECURSIVE WithCRLF(_)
\* the text with every LF written as CRLF
WithCRLF(text) ==
    IF text = <<>> THEN <<>>
    ELSE (IF text[1] = LF THEN <<CR, LF>> ELSE <<text[1]>>) \o WithCRLF(Tail(text))

RECURSIVE WithCR(_)
\* the text with every LF written as a bare CR
WithCR(text) ==
    IF text = <<>> THEN <<>>
    ELSE (IF text[1] = LF THEN <<CR>> ELSE <<text[1]>>) \o WithCR(Tail(text))

\* the line endings a file is saved with, and a text saved with one of them
LineEndings == {"LF", "CRLF", "CR"}

WithLineEnding(text, ending) ==
    IF ending = "CRLF" THEN WithCRLF(text)
    ELSE IF ending = "CR" THEN WithCR(text)
    ELSE text

Udiffs ==
    {FileDiff(p, p, <<h>>) : p \in {PathDF, PathEF, PathG}, h \in EditHunks}
    \cup {FileDiff(DevNull, <<"n">>, <<h>>) :
              h \in {<<HeaderNumeric>> \o BodyInsert, <<HeaderDots>> \o BodyInsert}}
    \cup {FileDiff(PathDF, PathDF, <<<<h>> \o BodyReplace, <<h>> \o BodyAfter>>) :
              h \in {HeaderNumeric, HeaderDots}}
    \cup {FileDiff(PathDF, PathDF, <<<<HeaderNumeric>> \o BodyReplace>>)
              \o FileDiff(PathEF, PathEF, <<<<HeaderNumeric>> \o BodyAfter>>),
          WithCRLF(FileDiff(PathDF, PathDF, <<<<HeaderNumeric>> \o BodyReplace>>)),
          Concat(<<HeaderNumeric>> \o BodyReplace)}

\* the lines of a diff: the "--- " and "+++ " lines of a file, a hunk
\* header, a delete line and an insert line
DiffLines ==
    {<<"-", "-", "-", SP>> \o PathDF \o <<LF>>,
     <<"+", "+", "+", SP>> \o PathEF \o <<LF>>,
     HeaderNumeric,
     <<"-", "a", LF>>,
     <<"+", "b", LF>>}

MaxDiffLines == 4

DiffTexts ==
    {Concat(ls) : ls \in UNION {[1..n -> DiffLines] : n \in 0..MaxDiffLines}}

\* abs_root_path as its parameter is documented (the project's root) and as
\* the docstring's example passes it (the path of a file of the project)
AbsRootPaths == {RootDir, FileF}

(***************************************************************************)
(* State.                                                                  *)
(***************************************************************************)
VARIABLES
    content,        \* apply_hunk: the content argument of the latest call
    hunk,           \* apply_hunk: the hunk argument of the latest call
    new_content,    \* apply_hunk: what the latest call returned
    again_content,  \* apply_hunk: what applying hunk to new_content returned
    applications,   \* apply_hunk: how many times hunk has been applied in a row
    line_ending,    \* apply_hunk: the line ending content was saved again with
    version_content,      \* apply_hunk: content saved with line_ending
    version_new_content,  \* apply_hunk: what hunk applied to version_content returned
    io,             \* the kind of the coder's io: MockIO or FileIO
    root,           \* io.root
    files,          \* MockIO.files, or the file system that FileIO opens
    op,             \* the call made on the coder: "init" before any
    abs_root_path,  \* apply_udiff: its abs_root_path argument
    udiff,          \* apply_udiff: its udiff argument
    edits,          \* apply_edits: its edits argument
    old_files,      \* the store when the call started
    cnt,            \* apply_edits: cnt when the call ended
    raised,         \* apply_edits: whether an exception ended the call
    log,            \* apply_edits: what each iteration of its loop did
    diff_content,   \* get_edits: its diff_content argument
    parse_pc,       \* get_edits: "init" before the call, "loop", "done" at return
    lines,          \* get_edits: the lines the loop has still to read
    current_path,   \* get_edits: its local current_path
    current_hunk,   \* get_edits: its local current_hunk
    parsed_edits,   \* get_edits: its local edits, returned at "done"
    header_path     \* get_edits: current_path as it was when the header of
                    \* current_hunk was read (history)

hvars == <<content, hunk, new_content, again_content, applications,
           line_ending, version_content, version_new_content>>

evars == <<io, root, files, op, abs_root_path, udiff, edits, old_files, cnt,
           raised, log>>

pvars == <<diff_content, parse_pc, lines, current_path, current_hunk,
           parsed_edits, header_path>>

vars == <<hvars, evars, pvars>>

\* the coder's variables outside any call
EditsIdle ==
    /\ io = MockIO
    /\ root = RootDir
    /\ files = <<>>
    /\ op = "init"
    /\ abs_root_path = <<>>
    /\ udiff = <<>>
    /\ edits = <<>>
    /\ old_files = <<>>
    /\ cnt = 0
    /\ raised = FALSE
    /\ log = <<>>

\* the variables of get_edits outside any call
ParseIdle ==
    /\ diff_content = <<>>
    /\ parse_pc = "init"
    /\ lines = <<>>
    /\ current_path = None
    /\ current_hunk = <<>>
    /\ parsed_edits = <<>>
    /\ header_path = None

\* the variables of the apply_hunk calls outside any call
HunkIdle ==
    /\ content = <<>>
    /\ hunk = <<>>
    /\ new_content = <<>>
    /\ again_content = <<>>
    /\ applications = 0
    /\ line_ending = "LF"
    /\ version_content = <<>>
    /\ version_new_content = <<>>

(***************************************************************************)
(* apply_hunk as a pure function: a first call on a drawn content, then a  *)
(* second call of the same hunk on what the first returned.                *)
(***************************************************************************)
HunkInit ==
    /\ content \in Contents
    /\ hunk = <<>>
    /\ new_content = content
    /\ again_content = content
    /\ applications = 0
    /\ line_ending = "LF"
    /\ version_content = content
    /\ version_new_content = content
    /\ EditsIdle
    /\ ParseIdle

ApplyHunk(h) ==
    /\ applications = 0
    /\ hunk' = h
    /\ new_content' = apply_hunk(content, h)
    /\ applications' = 1
    /\ UNCHANGED <<content, again_content, line_ending, version_content,
                   version_new_content, evars, pvars>>

ApplyHunkAgain ==
    /\ applications = 1
    /\ again_content' = apply_hunk(new_content, hunk)
    /\ applications' = 2
    /\ UNCHANGED <<content, hunk, new_content, line_ending, version_content,
                   version_new_content, evars, pvars>>

\* the hunk of the first call applied to the same file saved with CRLF or
\* bare-CR line endings (the file of the first call has LF line endings)
ApplyHunkToVersion(ending) ==
    /\ applications = 1
    /\ line_ending = "LF"
    /\ CR \notin {content[i] : i \in 1..Len(content)}
    /\ line_ending' = ending
    /\ version_content' = WithLineEnding(content, ending)
    /\ version_new_content' = apply_hunk(WithLineEnding(content, ending), hunk)
    /\ UNCHANGED <<content, hunk, new_content, again_content, applications, evars, pvars>>

HunkNext ==
    \/ \E h \in Hunks : ApplyHunk(h)
    \/ ApplyHunkAgain
    \/ \E ending \in LineEndings \ {"LF"} : ApplyHunkToVersion(ending)

HunkSpec == HunkInit /\ [][HunkNext]_vars

(***************************************************************************)
(* The coder: one call of apply_edits on a coder over a drawn store, or    *)
(* one call of apply_udiff on the file system.                             *)
(***************************************************************************)
Init ==
    /\ HunkIdle
    /\ ParseIdle
    /\ io \in {MockIO, FileIO}
    /\ root = RootDir
    /\ files \in Stores
    /\ op = "init"
    /\ abs_root_path = <<>>
    /\ udiff = <<>>
    /\ edits = <<>>
    /\ old_files = files
    /\ cnt = 0
    /\ raised = FALSE
    /\ log = <<>>

\* coder.apply_edits(es) with coder = UnifiedDiffCoder(io)
ApplyEdits(es) ==
    /\ op = "init"
    /\ \E r \in {apply_edits(io, root, files, es)} :
           /\ files' = r.files
           /\ cnt' = r.cnt
           /\ raised' = r.raised
           /\ log' = r.log
    /\ op' = "apply_edits"
    /\ edits' = es
    /\ old_files' = files
    /\ UNCHANGED <<io, root, abs_root_path, udiff, hvars, pvars>>

\* mod.py: apply_udiff(arp, text), on the file system
ApplyUdiff(arp, text) ==
    /\ op = "init"
    /\ io = FileIO
    /\ \E r \in {apply_edits(FileIO, dirname(arp), files, get_edits(text))} :
           /\ root' = dirname(arp)
           /\ edits' = get_edits(text)
           /\ files' = r.files
           /\ cnt' = r.cnt
           /\ raised' = r.raised
           /\ log' = r.log
    /\ op' = "apply_udiff"
    /\ abs_root_path' = arp
    /\ udiff' = text
    /\ old_files' = files
    /\ UNCHANGED <<io, hvars, pvars>>

Next ==
    \/ \E es \in EditLists : ApplyEdits(es)
    \/ \E arp \in AbsRootPaths, text \in Udiffs : ApplyUdiff(arp, text)

Spec == Init /\ [][Next]_vars

(***************************************************************************)
(* get_edits line by line: the call splits the diff into lines, the loop   *)
(* reads one line at each step, and the return commits the open hunk.      *)
(***************************************************************************)
ParseInit ==
    /\ HunkIdle
    /\ EditsIdle
    /\ diff_content \in DiffTexts
    /\ parse_pc = "init"
    /\ lines = <<>>
    /\ current_path = None
    /\ current_hunk = <<>>
    /\ parsed_edits = <<>>
    /\ header_path = None

\* the call up to the loop: the locals are set and the diff is split
GetEditsStart ==
    /\ parse_pc = "init"
    /\ parse_pc' = "loop"
    /\ lines' = splitlines(normalize_line_endings(diff_content))
    /\ current_path' = None
    /\ current_hunk' = <<>>
    /\ parsed_edits' = <<>>
    /\ UNCHANGED <<diff_content, header_path, hvars, evars>>

\* one iteration of the loop, on the first line not yet read
GetEditsLine ==
    /\ parse_pc = "loop"
    /\ lines # <<>>
    /\ \E st \in {get_edits_line([edits |-> parsed_edits,
                                   current_path |-> current_path,
                                   current_hunk |-> current_hunk],
                                  Head(lines))} :
           /\ parsed_edits' = st.edits
           /\ current_path' = st.current_path
           /\ current_hunk' = st.current_hunk
    /\ header_path' = IF StartsWith(Head(lines), <<"@", "@">>)
                      THEN current_path ELSE header_path
    /\ lines' = Tail(lines)
    /\ UNCHANGED <<diff_content, parse_pc, hvars, evars>>

\* after the loop: the open hunk, if any, is committed and edits returned
GetEditsEnd ==
    /\ parse_pc = "loop"
    /\ lines = <<>>
    /\ parsed_edits' = IF current_hunk # <<>>
                       THEN Append(parsed_edits, <<current_path, current_hunk>>)
                       ELSE parsed_edits
    /\ parse_pc' = "done"
    /\ UNCHANGED <<diff_content, lines, current_path, current_hunk, header_path,
                   hvars, evars>>

ParseNext ==
    \/ GetEditsStart
    \/ GetEditsLine
    \/ GetEditsEnd

ParseSpec == ParseInit /\ [][ParseNext]_vars

(***************************************************************************)
(* What the claims speak of, stated without the operators of the model:    *)
(* the before and after text of a hunk and the normalized content.         *)
(***************************************************************************)

\* the concatenation of the texts, marker dropped, of the body lines of h
\* that carry one of the markers (the hunks drawn have their header first)
TextOfLines(h, markers) ==
    LET kept == SelectSeq(Tail(h), LAMBDA l : l # <<>> /\ l[1] \in markers)
    IN  Concat([i \in 1..Len(kept) |-> Drop(kept[i], 1)])

Before == TextOfLines(hunk, {SP, "-"})

After == TextOfLines(hunk, {SP, "+"})

\* a text with every CRLF pair and every remaining CR turned into LF
NormalizedText(text) ==
    LET pairs == {i \in 1..Len(text) :
                      text[i] = CR /\ i < Len(text) /\ text[i + 1] = LF}
        kept == SelectSeq([i \in 1..Len(text) |-> <<i, text[i]>>],
                          LAMBDA p : p[1] \notin pairs)
    IN  [i \in 1..Len(kept) |-> IF kept[i][2] = CR THEN LF ELSE kept[i][2]]

Normalized == NormalizedText(content)

\* C1: a hunk with a well-formed numeric header whose before text is
\* non-empty and occurs exactly once in the normalized content yields the
\* normalized content with that occurrence replaced by the after text, every
\* character before and after the occurrence kept.
C1_UniqueOccurrenceReplaced ==
    (/\ applications >= 1
     /\ hunk[1] \in NumericHeaders
     /\ Before # <<>>
     /\ Cardinality(Occurrences(Normalized, Before)) = 1)
    => \E i \in Occurrences(Normalized, Before) :
           new_content = Take(Normalized, i) \o After
                             \o Drop(Normalized, i + Len(Before))

\* C1 witness: a CRLF content in which the before text occurs once, after
\* normalization only, and has been replaced by a different after text
C1_Witness ==
    /\ applications = 1
    /\ hunk[1] \in NumericHeaders
    /\ Before # <<>>
    /\ After # Before
    /\ Occurrences(content, Before) = {}
    /\ Cardinality(Occurrences(Normalized, Before)) = 1
    /\ Len(Normalized) > Len(Before)
    /\ new_content # Normalized
\* C3: the new content does not depend on the header: the same body under
\* any other header (numeric, wrong ranges, "@@ ... @@", bare "@@") applied
\* to the same content gives the same new content.
C3_HeaderIgnored ==
    applications >= 1 =>
        \A h \in Headers : apply_hunk(content, <<h>> \o Tail(hunk)) = new_content

\* C4: a hunk whose (non-empty) before text occurs more than once in the
\* content is refused: the content comes back unchanged, no occurrence is
\* picked.
C4_AmbiguousRefused ==
    (/\ applications >= 1
     /\ hunk[1] \in NumericHeaders
     /\ Before # <<>>
     /\ Cardinality(Occurrences(Normalized, Before)) > 1)
    => new_content = Normalized

(***************************************************************************)
(* Context narrowing as the specification describes it: the contents that  *)
(* result from replacing every change run of a body, in order, at the      *)
(* unique match of the run taken with some of its surrounding context.     *)
(***************************************************************************)

IsChange(line) == line[1] \in {"-", "+"}

\* the change runs of a body: the maximal intervals <<s, e>> of change lines
ChangeRuns(body) ==
    {r \in (1..Len(body)) \X (1..Len(body)) :
        /\ r[1] <= r[2]
        /\ \A i \in r[1]..r[2] : IsChange(body[i])
        /\ (r[1] = 1 \/ ~IsChange(body[r[1] - 1]))
        /\ (r[2] = Len(body) \/ ~IsChange(body[r[2] + 1]))}

\* the windows of a change run: the run with some trailing lines of the
\* context run before it and some leading lines of the context run after it
Windows(body, r) ==
    {w \in (1..r[1]) \X (r[2]..Len(body)) :
        \A i \in (w[1]..(r[1] - 1)) \cup ((r[2] + 1)..w[2]) : ~IsChange(body[i])}

\* the texts that replacing one window of run r, of a non-empty before
\* text, at its unique match yields
NarrowRun(text, body, r) ==
    {Take(text, i) \o TextOfLines(<<HeaderNumeric>> \o SubSeq(body, w[1], w[2]), {SP, "+"})
        \o Drop(text, i + Len(TextOfLines(<<HeaderNumeric>> \o SubSeq(body, w[1], w[2]), {SP, "-"}))) :
        <<w, i>> \in {wi \in Windows(body, r) \X (0..Len(text)) :
            /\ TextOfLines(<<HeaderNumeric>> \o SubSeq(body, wi[1][1], wi[1][2]),
                           {SP, "-"}) # <<>>
            /\ Occurrences(text,
                           TextOfLines(<<HeaderNumeric>> \o SubSeq(body, wi[1][1], wi[1][2]),
                                       {SP, "-"})) = {wi[2]}}}

RECURSIVE NarrowAll(_, _, _)
\* the texts that replacing the change runs that start at line from or
\* later, in order, each on the result of the one before, yields
NarrowAll(texts, body, from) ==
    LET later == {r \in ChangeRuns(body) : r[1] >= from}
    IN  IF later = {} THEN texts
        ELSE LET r == CHOOSE x \in later : \A y \in later : x[1] <= y[1]
             IN  NarrowAll(UNION {NarrowRun(t, body, r) : t \in texts},
                           body, r[2] + 1)

Narrowed == NarrowAll({Normalized}, Tail(hunk), 1)

\* C5: when the full before text is not in the content but every change
\* run, with some reduced context, matches the current content at exactly
\* one place, the hunk is applied: each change run is replaced at its match.
C5_ContextNarrowed ==
    (/\ applications >= 1
     /\ hunk[1] \in NumericHeaders
     /\ Occurrences(Normalized, Before) = {}
     /\ ChangeRuns(Tail(hunk)) # {}
     /\ Narrowed # {})
    => new_content \in Narrowed

\* C10: applying the same hunk (one with a before text to replace) a second
\* time leaves the content as the first application returned it.
C10_Idempotent ==
    (applications = 2 /\ Before # <<>>) => again_content = new_content

\* C10 as amended: the second application is a no-op exactly when the
\* before text no longer occurs in what the first application returned (or
\* the header does not parse, or the after text equals the before text);
\* when the before text still occurs there, the hunk is applied again.
C10_NoOpIffBeforeGone ==
    applications = 2 =>
        (again_content = new_content
            <=> \/ hunk[1] \notin NumericHeaders
                \/ Occurrences(new_content, Before) = {}
                \/ After = Before)

\* C10 witness: the first application replaced the before text, which is
\* gone from the result, and the second application changed nothing
C10_Witness ==
    /\ applications = 2
    /\ hunk[1] \in NumericHeaders
    /\ Before # <<>>
    /\ new_content # Normalized
    /\ Occurrences(new_content, Before) = {}
    /\ again_content = new_content

\* C11: for a content with LF line endings and a hunk with LF-only body
\* lines, applying the hunk to the CRLF or bare-CR version of the content
\* gives, after line-ending normalization, the same final content as
\* applying it to the content itself, and the hunk changes the one exactly
\* when it changes the other (it matches in both runs or in neither).
C11_LineEndingIndependent ==
    line_ending # "LF" =>
        /\ NormalizedText(version_content) = content
        /\ NormalizedText(version_new_content) = NormalizedText(new_content)
        /\ (NormalizedText(version_new_content) # NormalizedText(version_content))
               <=> (new_content # content)

\* C11 witness: a two-line content saved with bare CR line endings, in which
\* the hunk found its before text and replaced it as in the LF content
C11_Witness ==
    /\ line_ending = "CR"
    /\ hunk[1] \in NumericHeaders
    /\ Before # <<>>
    /\ After # Before
    /\ Cardinality({i \in 1..Len(version_content) : version_content[i] = CR}) = 2
    /\ LF \notin {version_content[i] : i \in 1..Len(version_content)}
    /\ new_content # content
    /\ version_new_content = new_content

\* C14: a hunk whose before text is empty (insert lines only) is applied
\* only to the empty content, which becomes the inserted lines; applied to
\* a non-empty content it changes nothing: the content comes back as it was
\* and the inserted lines are placed nowhere.
C14_EmptyBeforeOnlyOnEmpty ==
    (/\ applications >= 1
     /\ hunk[1] \in NumericHeaders
     /\ Before = <<>>
     /\ After # <<>>)
    => new_content = (IF Normalized = <<>> THEN After ELSE Normalized)
(***************************************************************************)
(* apply_edits and apply_udiff: what the log of a call says of each edit.  *)
(***************************************************************************)

\* the edits whose iteration read (or tried to read) a file
Reached == {i \in 1..Len(log) : log[i].status # "skipped"}

\* the edits whose hunk was handed to apply_hunk
Done == {i \in 1..Len(log) : log[i].status = "done"}

\* whether the before text of edit i occurs in text
BeforeIn(i, text) ==
    Occurrences(text, TextOfLines(edits[i][2], {SP, "-"})) # {}

\* C2: a hunk whose before text cannot be found in the stored content of
\* its file (whatever its line endings) causes no write and is not counted;
\* a call in which no hunk's before text is found leaves the store as it
\* was, returns 0 and raises nothing.
C2_NotFoundLeavesFile ==
    op # "init" =>
        /\ \A i \in Done :
               (log[i].existed /\ ~BeforeIn(i, NormalizedText(log[i].content)))
                   => ~log[i].wrote
        /\ (\A i \in Reached :
                /\ log[i].file \in DOMAIN old_files
                /\ ~BeforeIn(i, NormalizedText(old_files[log[i].file])))
               => (files = old_files /\ cnt = 0 /\ ~raised)

\* the root the host supplied: to apply_udiff as abs_root_path, to a coder
\* as the root of its io
HostRoot == IF op = "apply_udiff" THEN abs_root_path ELSE root

\* the root joined with the whole of a relative path; an absolute path as is
Resolved(path) ==
    IF path[1] = SLASH THEN path ELSE HostRoot \o <<SLASH>> \o path

\* C6: the file read and written for a hunk is the host's root joined with
\* the whole relative path of the hunk (an absolute path as is), so hunks
\* with different relative paths are applied to different files.
C6_PathJoinedUnderRoot ==
    op # "init" =>
        /\ \A i \in Reached : log[i].file = Resolved(edits[i][1])
        /\ \A i, j \in Reached :
               (edits[i][1] # edits[j][1] /\ edits[i][1][1] # SLASH
                    /\ edits[j][1][1] # SLASH)
                   => log[i].file # log[j].file

\* the writes of the call, and the files they went to
Writes == {i \in 1..Len(log) : log[i].wrote}

FilesWritten == {log[i].file : i \in Writes}

\* C7: the integer apply_edits returns is the number of distinct files it
\* wrote.
C7_CountsDistinctFiles ==
    (op # "init" /\ ~raised) => cnt = Cardinality(FilesWritten)

\* C7 as amended: the integer apply_edits returns is the number of writes
\* it performed, one for each hunk whose application changed the content
\* read, which is at least the number of distinct files written.
C7_CountsWrites ==
    (op # "init" /\ ~raised) =>
        /\ cnt = Cardinality(Writes)
        /\ \A i \in Done : log[i].wrote <=> log[i].new_content # log[i].content
        /\ cnt >= Cardinality(FilesWritten)

\* C7 witness: two hunks written to the same file, counted twice
C7_Witness ==
    /\ op = "apply_edits"
    /\ ~raised
    /\ cnt = 2
    /\ Cardinality(Writes) = 2
    /\ Cardinality(FilesWritten) = 1

\* C8: of two hunks for the same file, where the before text of hunk B is
\* not in the file but is in what hunk A makes of it: [A, B] applies both,
\* B to the content A wrote; [B, A] leaves B unapplied and applies A.
C8_DocumentOrder ==
    (/\ op # "init"
     /\ Len(edits) = 2
     /\ Done = {1, 2}
     /\ log[1].file = log[2].file)
    => /\ (/\ ~BeforeIn(2, NormalizedText(log[1].content))
           /\ BeforeIn(2, log[1].new_content))
          => /\ log[1].wrote
             /\ log[2].content = log[1].new_content
             /\ log[2].wrote
       /\ (/\ ~BeforeIn(1, NormalizedText(log[1].content))
           /\ BeforeIn(1, log[2].new_content))
          => /\ log[1].new_content = NormalizedText(log[1].content)
             /\ log[2].wrote

\* "--- /dev/null", "+++ n" and one hunk of insert lines only
IsNewFileDiff ==
    /\ op = "apply_udiff"
    /\ udiff \in {FileDiff(DevNull, <<"n">>, <<<<h>> \o BodyInsert>>) : h \in NumericHeaders}

\* C9: a hunk for a file that does not exist is applied to the empty
\* content, under FileIO as under MockIO, and a new-file diff ends with the
\* new file holding exactly the inserted lines.
C9_MissingFileIsEmpty ==
    op # "init" =>
        /\ \A i \in Reached :
               ~log[i].existed => (log[i].status = "done" /\ log[i].content = <<>>)
        /\ IsNewFileDiff =>
               \E p \in DOMAIN files :
                   /\ p \notin DOMAIN old_files
                   /\ files[p] = TextOfLines(<<HeaderNumeric>> \o BodyInsert, {"+"})

(***************************************************************************)
(* get_edits: what a step of its loop may do to the open hunk.             *)
(***************************************************************************)

\* a line that names a file: it starts with "--- " or with "+++ "
IsFileLine(line) ==
    Len(line) >= 4 /\ SubSeq(line, 1, 4) \in {<<"-", "-", "-", SP>>, <<"+", "+", "+", SP>>}

\* a step of the loop that reads a "--- " or "+++ " line while a hunk is open
FileLineInOpenHunk ==
    /\ parse_pc = "loop"
    /\ lines # <<>>
    /\ current_hunk # <<>>
    /\ IsFileLine(Head(lines))

\* whether the step adds a hunk to the edits
CommitsHunk == Len(parsed_edits') > Len(parsed_edits)

\* C12: a "--- " or "+++ " line read while a hunk is open never closes the
\* hunk: the step leaves the hunk open with the lines it has and commits
\* nothing, so that body lines after it still join the hunk; a hunk is
\* committed only when a "@@" header is read or at the end of the input.
C12_FileLineKeepsHunkOpen ==
    [][/\ FileLineInOpenHunk =>
            (current_hunk' = current_hunk /\ parsed_edits' = parsed_edits)
       /\ CommitsHunk =>
            (lines = <<>> \/ (Head(lines)[1] = "@" /\ Head(lines)[2] = "@"))]_vars

\* C13: every hunk is committed under the path that was current when its
\* "@@" header was read, whatever "+++ " line came after the header.
C13_PathOfHeader ==
    [][CommitsHunk => parsed_edits'[Len(parsed_edits')][1] = header_path]_vars
====
